---- MODULE Spec2Model ----
(***************************************************************************)
(* State-machine model of the RediSearch embedding C API                   *)
(* (src/src/redisearch_api.c): the read/write gate taken by every mutation *)
(* and held by every open result iterator, the document table mutations,   *)
(* and the query compilation pipeline of handleIterCommon.                 *)
(*                                                                         *)
(* Collaborators whose code is outside redisearch_api.c (the rwlock, the   *)
(* document table, the indexer, the query AST) are modelled by their       *)
(* documented contract; every such definition says so in its comment.      *)
(***************************************************************************)
EXTENDS Integers, Sequences, FiniteSets, TLC

\* ------------------------------------------------------------------ bounds
\* Number of document identifiers the document table may hand out.
MaxDocId == 3
\* Number of RS_ApiIter objects that may be allocated at the same time.
MaxIters == 2
\* ----------------------------------------------------- program constants
REDISMODULE_OK == 0
REDISMODULE_ERR == 1
QUERY_INPUT_STRING == 1
QUERY_INPUT_NODE == 2
\* Number of full-text ids an index can hand out (SPEC_MAX_FIELD_ID in
\* spec.h, scaled down to the model's field bound).
SPEC_MAX_FIELD_ID == 1

\* ------------------------------------------------------------ input sets
Threads == {"t1", "t2"}
NoThread == "none"
Keys == {"doc1", "doc2"}
FieldNames == {"title"}
NULL == "NULL"
\* The collector of the index: an actor of its own, started by
\* IndexSpec_StartGCFromSpec (line 57), that never takes the gate.
Collector == "gc"
Actors == Threads \cup {Collector}

\* The document handle built by RediSearch_CreateDocument plus the
\* DocumentAddField* calls: its key, and whether the indexer accepts its
\* field values (a value the indexer rejects is reported through
\* aCtx->status and RediSearch_AddDocDone).
Documents == [docKey : Keys, indexable : BOOLEAN]

\* Type sets and option sets handed to RediSearch_CreateField.
TypeInputs == {{"FULLTEXT"}, {"NUMERIC", "TAG"}}
OptionInputs == {{}, {"SORTABLE", "TXTPHONETIC"}}

VARIABLES
  rwWriter,       \* the thread holding the gate for writing, or NoThread
  rwReaders,      \* rwReaders[t]: read holds of the gate owned by thread t
  spLive,         \* the IndexSpec is allocated (not yet dropped)
  gc,             \* state flag of the index's collector: NONE, ACTIVE, FREED
  fields,         \* sp->fields: the Field Registry, a sequence of FieldSpec
  spFlags,        \* sp->flags bits set through the API
  docs,           \* sp->docs: document table, entry i has identifier i
  numDocuments,   \* sp->stats.numDocuments
  iters,          \* the RS_ApiIter objects, by allocation slot
  call,           \* call[a]: the API call thread a is inside of (for
                  \* the collector: the step of its cycle it is at)
  last            \* the most recent API return (history variable)

vars == <<rwWriter, rwReaders, spLive, gc, fields, spFlags, docs, numDocuments,
          iters, call, last>>

Iters == 1..MaxIters

\* ------------------------------------------------- RW Lock Coordinator
\* rwlock.h is not part of the source under study; the gate is modelled by
\* its contract: one reader/writer lock, any number of read holds, a write
\* hold excludes every other hold.
RECURSIVE SumOver(_, _)
SumOver(f, S) ==
  IF S = {} THEN 0
  ELSE LET x == CHOOSE y \in S : TRUE IN f[x] + SumOver(f, S \ {x})

TotalReaders == SumOver(rwReaders, Threads)

CanAcquireWrite == rwWriter = NoThread /\ TotalReaders = 0

CanAcquireRead == rwWriter = NoThread

\* RWLOCK_ACQUIRE_WRITE() by thread t (blocks until CanAcquireWrite).
AcquireWrite(t) ==
  /\ CanAcquireWrite
  /\ rwWriter' = t
  /\ UNCHANGED rwReaders

\* RWLOCK_ACQUIRE_READ() by thread t (blocks until CanAcquireRead).
AcquireRead(t) ==
  /\ CanAcquireRead
  /\ rwReaders' = [rwReaders EXCEPT ![t] = @ + 1]
  /\ UNCHANGED rwWriter

\* RWLOCK_RELEASE() by thread t: drops the hold t owns (its write hold if
\* it has one, else one of its read holds).
Release(t) ==
  IF rwWriter = t
    THEN rwWriter' = NoThread /\ UNCHANGED rwReaders
    ELSE /\ rwReaders' = [rwReaders EXCEPT ![t] = IF @ > 0 THEN @ - 1 ELSE 0]
         /\ UNCHANGED rwWriter

\* ------------------------------------------------------- call records
Idle == [op |-> "idle", args |-> <<>>]

NoReturn ==
  [op |-> "none", rc |-> REDISMODULE_OK, key |-> NULL,
   found |-> 0, fs |-> 0, msg |-> NULL, treeFrees |-> 0, internalFrees |-> 0, docFreed |-> FALSE]

\* The return of operation op with status rc.
Returned(op, rc) == [NoReturn EXCEPT !.op = op, !.rc = rc]

\* An RS_ApiIter slot that holds no iterator.  (seen is a history field:
\* the keys Next has returned since the iterator was compiled or last
\* rewound.)
NoIter ==
  [state |-> "none", owner |-> NoThread, qtype |-> 0, root |-> NULL,
   internal |-> NULL, pos |-> 0, lastmd |-> 0, scorer |-> FALSE, treeFrees |-> 0,
   seen |-> <<>>]

\* ------------------------------------------------------ document table
\* doc_table.h is outside the source under study: modelled by its contract
\* (identifier 0 is "absent"; delete tombstones the entry in place).
DocTable_GetIdR(dt, key) ==
  IF \E i \in 1..Len(dt) : dt[i].key = key /\ dt[i].present /\ ~dt[i].deleted
    THEN CHOOSE i \in 1..Len(dt) : dt[i].key = key /\ dt[i].present /\ ~dt[i].deleted
    ELSE 0

\* The NULL RSDocumentMetadata pointer.
NullMd == [key |-> NULL, deleted |-> FALSE, present |-> FALSE]

\* DocTable_Get: the metadata of identifier id, or NULL when the table
\* holds no entry for it.
DocTable_Get(dt, id) ==
  IF id \in 1..Len(dt) /\ dt[id].present THEN dt[id] ELSE NullMd

\* DocTable_DeleteR: rc is 1 when an entry was tombstoned, 0 otherwise.
DocTable_DeleteR(dt, key) ==
  LET id == DocTable_GetIdR(dt, key) IN
  IF id = 0
    THEN [docs |-> dt, rc |-> 0]
    ELSE [docs |-> [dt EXCEPT ![id].deleted = TRUE], rc |-> 1]

\* Number of keys that are present and not tombstoned.
LiveKeys(dt) == {k \in Keys : DocTable_GetIdR(dt, k) # 0}

\* --------------------------------------------------------------- Init
\* The state RediSearch_CreateIndex returns: an empty index, with a
\* collector unless the options ask for GC_POLICY_NONE.
Init ==
  /\ rwWriter = NoThread
  /\ rwReaders = [t \in Threads |-> 0]
  /\ spLive = TRUE
  /\ gc \in {"NONE", "ACTIVE"}
  /\ fields = <<>>
  /\ spFlags = {"Index_Temporary"}
  /\ docs = <<>>
  /\ numDocuments = 0
  /\ iters = [i \in Iters |-> NoIter]
  /\ call = [a \in Actors |-> Idle]
  /\ last = NoReturn

\* ------------------------------------------------------------ DropIndex
DropIndex_Acquire(t) ==
  /\ spLive
  /\ call[t] = Idle
  /\ AcquireWrite(t)
  /\ call' = [call EXCEPT ![t] = [op |-> "DropIndex", args |-> <<"locked">>]]
  /\ UNCHANGED <<spLive, gc, fields, spFlags, docs, numDocuments, iters, last>>

\* RediSearch_DropIndex without the flag write of line 67.
DropIndex_MarkGC_NoWrite(t) ==
  /\ call[t] = [op |-> "DropIndex", args |-> <<"locked">>]
  /\ call' = [call EXCEPT ![t] = [op |-> "DropIndex", args |-> <<"marked">>]]
  /\ UNCHANGED <<rwWriter, rwReaders, spLive, gc, fields, spFlags, docs,
                 numDocuments, iters, last>>

\* if (sp->gc) gcCtx->type = ForkGCCtxType_FREED;
DropIndex_MarkGC(t) ==
  /\ call[t] = [op |-> "DropIndex", args |-> <<"locked">>]
  /\ gc' = IF gc # "NONE" THEN "FREED" ELSE gc
  /\ call' = [call EXCEPT ![t] = [op |-> "DropIndex", args |-> <<"marked">>]]
  /\ UNCHANGED <<rwWriter, rwReaders, spLive, fields, spFlags, docs, numDocuments,
                 iters, last>>

\* dictRelease(keysDict); IndexSpec_FreeSync(sp); RWLOCK_RELEASE();
DropIndex_Free(t) ==
  /\ call[t] = [op |-> "DropIndex", args |-> <<"marked">>]
  /\ spLive' = FALSE
  /\ fields' = <<>>
  /\ spFlags' = {}
  /\ docs' = <<>>
  /\ numDocuments' = 0
  /\ Release(t)
  /\ call' = [call EXCEPT ![t] = Idle]
  /\ last' = Returned("DropIndex", REDISMODULE_OK)
  /\ UNCHANGED <<gc, iters>>

\* ---------------------------------------------------------- CreateField
\* IndexSpec_CreateField (spec.c, outside the source under study): appends
\* a zeroed FieldSpec carrying the name and the next field index.
IndexSpec_CreateField(flds, name) ==
  Append(flds, [name |-> name, index |-> Len(flds), types |-> {}, options |-> {},
                ftId |-> -1, sortIdx |-> -1, ftWeight |-> 1, tagSep |-> ","])

\* IndexSpec_CreateTextId (spec.c, outside the source under study): the
\* next full-text id, or -1 when SPEC_MAX_FIELD_ID ids are in use.
IndexSpec_CreateTextId(flds) ==
  LET used == {i \in 1..Len(flds) : flds[i].ftId >= 0} IN
  IF Cardinality(used) >= SPEC_MAX_FIELD_ID THEN -1 ELSE Cardinality(used)

\* RSSortingTable_Add: the slot of the newly added sortable field.
RSSortingTable_Add(flds) ==
  Cardinality({i \in 1..Len(flds) : flds[i].sortIdx >= 0})

\* Lines 84-125 for the field just appended: the FieldSpec it ends as.
InitializedField(flds, fs0, txtId, types, options) ==
  [fs0 EXCEPT
     !.types = types \cap {"FULLTEXT", "NUMERIC", "GEO", "TAG"},
     !.ftId = IF "FULLTEXT" \in types THEN txtId ELSE @,
     !.options =
        (IF Cardinality(types \cap {"FULLTEXT", "NUMERIC", "GEO", "TAG"}) > 1
           THEN {"FieldSpec_Dynamic"} ELSE {})
        \cup (IF "NOINDEX" \in options THEN {"FieldSpec_NotIndexable"} ELSE {})
        \cup (IF "SORTABLE" \in options THEN {"FieldSpec_Sortable"} ELSE {})
        \cup (IF "TXTNOSTEM" \in options THEN {"FieldSpec_NoStemming"} ELSE {})
        \cup (IF "TXTPHONETIC" \in options THEN {"FieldSpec_Phonetics"} ELSE {}),
     !.sortIdx = IF "SORTABLE" \in options THEN RSSortingTable_Add(flds) ELSE @]

CreateField_Acquire(t, name, types, options) ==
  /\ spLive
  /\ call[t] = Idle
  /\ \A i \in 1..Len(fields) : fields[i].name # name
  /\ AcquireWrite(t)
  /\ call' = [call EXCEPT ![t] = [op |-> "CreateField",
                                  args |-> <<name, types, options>>]]
  /\ UNCHANGED <<spLive, gc, fields, spFlags, docs, numDocuments, iters, last>>

\* RediSearch_CreateField without the RWLOCK_RELEASE() of line 88.
CreateField_Body_KeepsGateOnFailure(t) ==
  /\ call[t].op = "CreateField"
  /\ LET name == call[t].args[1]
         types == call[t].args[2]
         options == call[t].args[3]
         appended == IndexSpec_CreateField(fields, name)
         txtId == IndexSpec_CreateTextId(fields)
     IN IF "FULLTEXT" \in types /\ txtId < 0
          THEN /\ fields' = appended
               /\ spFlags' = spFlags
               /\ last' = Returned("CreateField", REDISMODULE_ERR)
               /\ UNCHANGED <<rwWriter, rwReaders>>
          ELSE /\ fields' = [appended EXCEPT ![Len(appended)] =
                               InitializedField(fields, @, txtId, types, options)]
               /\ spFlags' = IF "TXTPHONETIC" \in options
                               THEN spFlags \cup {"Index_HasPhonetic"} ELSE spFlags
               /\ last' = [Returned("CreateField", REDISMODULE_OK)
                             EXCEPT !.fs = Len(appended)]
               /\ Release(t)
  /\ call' = [call EXCEPT ![t] = Idle]
  /\ UNCHANGED <<spLive, gc, docs, numDocuments, iters>>

CreateField_Body(t) ==
  /\ call[t].op = "CreateField"
  /\ LET name == call[t].args[1]
         types == call[t].args[2]
         options == call[t].args[3]
         appended == IndexSpec_CreateField(fields, name)
         txtId == IndexSpec_CreateTextId(fields)
     IN IF "FULLTEXT" \in types /\ txtId < 0
          THEN \* early return NULL: the appended FieldSpec stays registered
               /\ fields' = appended
               /\ spFlags' = spFlags
               /\ last' = Returned("CreateField", REDISMODULE_ERR)
          ELSE /\ fields' = [appended EXCEPT ![Len(appended)] =
                               InitializedField(fields, @, txtId, types, options)]
               /\ spFlags' = IF "TXTPHONETIC" \in options
                               THEN spFlags \cup {"Index_HasPhonetic"} ELSE spFlags
               /\ last' = [Returned("CreateField", REDISMODULE_OK)
                             EXCEPT !.fs = Len(appended)]
  /\ Release(t)
  /\ call' = [call EXCEPT ![t] = Idle]
  /\ UNCHANGED <<spLive, gc, docs, numDocuments, iters>>

\* The position of every actor once the process has aborted.
Aborted == [op |-> "aborted", args |-> <<>>]

\* assert(types), line 78, in a build that keeps assertions: a call with
\* an empty type set aborts the process before the gate is taken.  (In a
\* build with NDEBUG the assert is compiled out and the call is
\* CreateField_Acquire with types = {}.)
CreateField_AssertFails(t, name, options) ==
  /\ spLive
  /\ call[t] = Idle
  /\ call' = [a \in Actors |-> Aborted]
  /\ last' = [NoReturn EXCEPT !.op = "abort"]
  /\ UNCHANGED <<rwWriter, rwReaders, spLive, gc, fields, spFlags, docs,
                 numDocuments, iters>>

\* Lines 132-135.  The caller passes a full-text field of the index; the
\* weight is stored without the gate being taken.
TextFieldSetWeight(t, f, w) ==
  /\ spLive
  /\ call[t] = Idle
  /\ f \in 1..Len(fields)
  /\ "FULLTEXT" \in fields[f].types
  /\ fields' = [fields EXCEPT ![f].ftWeight = w]
  /\ last' = [Returned("TextFieldSetWeight", REDISMODULE_OK) EXCEPT !.fs = f]
  /\ UNCHANGED <<rwWriter, rwReaders, spLive, gc, spFlags, docs, numDocuments,
                 iters, call>>

\* Lines 137-140.  The caller passes a tag field; the separator is stored
\* without the gate being taken.
TagSetSeparator(t, f, sep) ==
  /\ spLive
  /\ call[t] = Idle
  /\ f \in 1..Len(fields)
  /\ "TAG" \in fields[f].types
  /\ fields' = [fields EXCEPT ![f].tagSep = sep]
  /\ last' = [Returned("TagSetSeparator", REDISMODULE_OK) EXCEPT !.fs = f]
  /\ UNCHANGED <<rwWriter, rwReaders, spLive, gc, spFlags, docs, numDocuments,
                 iters, call>>

\* ------------------------------------------------------- DeleteDocument
\* DeleteDocument entered without RWLOCK_ACQUIRE_WRITE().
DeleteDocument_Acquire_NoGate(t, docKey) ==
  /\ spLive
  /\ call[t] = Idle
  /\ call' = [call EXCEPT ![t] = [op |-> "DeleteDocument", args |-> <<docKey>>]]
  /\ UNCHANGED <<rwWriter, rwReaders, spLive, gc, fields, spFlags, docs,
                 numDocuments, iters, last>>

DeleteDocument_Acquire(t, docKey) ==
  /\ spLive
  /\ call[t] = Idle
  /\ AcquireWrite(t)
  /\ call' = [call EXCEPT ![t] = [op |-> "DeleteDocument", args |-> <<docKey>>]]
  /\ UNCHANGED <<spLive, gc, fields, spFlags, docs, numDocuments, iters, last>>

\* RediSearch_DeleteDocument without the numDocuments-- of line 162.
DeleteDocument_Effect_NoDecrement(dt, n, docKey) ==
  LET id == DocTable_GetIdR(dt, docKey)
      del == DocTable_DeleteR(dt, docKey)
  IN IF id = 0
       THEN [docs |-> dt, numDocuments |-> n, rc |-> REDISMODULE_ERR]
       ELSE IF del.rc # 0
              THEN [docs |-> del.docs, numDocuments |-> n, rc |-> del.rc]
              ELSE [docs |-> del.docs, numDocuments |-> n, rc |-> REDISMODULE_ERR]

\* Lines 154-167: the table, the count and rc when the lookup is done.
DeleteDocument_Effect(dt, n, docKey) ==
  LET id == DocTable_GetIdR(dt, docKey)
      del == DocTable_DeleteR(dt, docKey)
  IN IF id = 0
       THEN [docs |-> dt, numDocuments |-> n, rc |-> REDISMODULE_ERR]
       ELSE IF del.rc # 0
              THEN [docs |-> del.docs, numDocuments |-> n - 1, rc |-> del.rc]
              ELSE [docs |-> del.docs, numDocuments |-> n, rc |-> REDISMODULE_ERR]

DeleteDocument_Body(t) ==
  /\ call[t].op = "DeleteDocument"
  /\ LET e == DeleteDocument_Effect(docs, numDocuments, call[t].args[1]) IN
       /\ docs' = e.docs
       /\ numDocuments' = e.numDocuments
       /\ last' = [Returned("DeleteDocument", e.rc) EXCEPT
                     !.key = call[t].args[1],
                     !.found = DocTable_GetIdR(docs, call[t].args[1])]
  /\ Release(t)
  /\ call' = [call EXCEPT ![t] = Idle]
  /\ UNCHANGED <<spLive, gc, fields, spFlags, iters>>

\* RediSearch_DeleteDocument called on a second index, one that was
\* created by another RediSearch_CreateIndex call and holds no document.
\* RWLOCK_ACQUIRE_WRITE() at line 152 names no index (and
\* RediSearch_ResultsIteratorFree, which releases, is not even handed
\* one), so the call passes through the same gate.
DeleteDocument_Acquire_OtherIndex(t, docKey) ==
  /\ call[t] = Idle
  /\ AcquireWrite(t)
  /\ call' = [call EXCEPT ![t] = [op |-> "DeleteDocument_OtherIndex",
                                  args |-> <<docKey>>]]
  /\ UNCHANGED <<spLive, gc, fields, spFlags, docs, numDocuments, iters, last>>

\* Lines 154-171 on the second index: its table is empty, the lookup
\* misses and nothing of either index changes.
DeleteDocument_Body_OtherIndex(t) ==
  /\ call[t].op = "DeleteDocument_OtherIndex"
  /\ last' = [Returned("DeleteDocument_OtherIndex",
                       DeleteDocument_Effect(<<>>, 0, call[t].args[1]).rc)
                EXCEPT !.key = call[t].args[1]]
  /\ Release(t)
  /\ call' = [call EXCEPT ![t] = Idle]
  /\ UNCHANGED <<spLive, gc, fields, spFlags, docs, numDocuments, iters>>

\* ----------------------------------------------------- IndexAddDocument
\* AddDocumentCtx_Submit with ACTX_F_NOBLOCK (document.c and indexer.c,
\* outside the source under study), by its contract: an indexing error
\* changes nothing and is reported through the done callback; a new key is
\* inserted under a fresh identifier; an existing key is replaced in its
\* entry when DOCUMENT_ADD_REPLACE is set and is an error otherwise.
AddDocumentCtx_Submit(dt, n, d, replace) ==
  LET id == DocTable_GetIdR(dt, d.docKey) IN
  IF ~d.indexable \/ (id # 0 /\ ~replace)
    THEN [docs |-> dt, numDocuments |-> n, hasErr |-> TRUE]
    ELSE IF id # 0
      THEN [docs |-> dt, numDocuments |-> n, hasErr |-> FALSE]
      ELSE [docs |-> Append(dt, [key |-> d.docKey, deleted |-> FALSE,
                                 present |-> TRUE]),
            numDocuments |-> n + 1, hasErr |-> FALSE]

IndexAddDocument_Acquire(t, d, options, errs) ==
  /\ spLive
  /\ call[t] = Idle
  /\ DocTable_GetIdR(docs, d.docKey) # 0 \/ Len(docs) < MaxDocId
  /\ AcquireWrite(t)
  /\ call' = [call EXCEPT ![t] = [op |-> "IndexAddDocument",
                                  args |-> <<d, options, errs>>]]
  /\ UNCHANGED <<spLive, gc, fields, spFlags, docs, numDocuments, iters, last>>

\* RediSearch_IndexAddDocument without the conflict branch of lines
\* 219-226: an existing key is always replaced.
IndexAddDocument_Effect_NoConflict(dt, n, d, options, errs) ==
  LET exists == DocTable_GetIdR(dt, d.docKey) # 0
      sub == AddDocumentCtx_Submit(dt, n, d, exists)
  IN [docs |-> sub.docs, numDocuments |-> sub.numDocuments,
      rc |-> IF sub.hasErr THEN REDISMODULE_ERR ELSE REDISMODULE_OK,
      msg |-> IF sub.hasErr /\ errs THEN "indexing error" ELSE NULL,
      docFreed |-> TRUE]

\* RediSearch_IndexAddDocument whose existence test of line 215 also
\* counts a tombstoned entry of the key.
IndexAddDocument_Effect_SeesTombstones(dt, n, d, options, errs) ==
  LET exists == \E i \in 1..Len(dt) : dt[i].key = d.docKey
      sub == AddDocumentCtx_Submit(dt, n, d, exists /\ "REPLACE" \in options)
  IN IF exists /\ "REPLACE" \notin options
       THEN [docs |-> dt, numDocuments |-> n, rc |-> REDISMODULE_ERR,
             msg |-> IF errs THEN "Document already exists" ELSE NULL,
             docFreed |-> FALSE]
       ELSE [docs |-> sub.docs, numDocuments |-> sub.numDocuments,
             rc |-> IF sub.hasErr THEN REDISMODULE_ERR ELSE REDISMODULE_OK,
             msg |-> IF sub.hasErr /\ errs THEN "indexing error" ELSE NULL,
             docFreed |-> TRUE]

\* Lines 209-235: table, count, status, message and whether d was freed.
IndexAddDocument_Effect(dt, n, d, options, errs) ==
  LET exists == DocTable_GetIdR(dt, d.docKey) # 0
      sub == AddDocumentCtx_Submit(dt, n, d, exists /\ "REPLACE" \in options)
  IN IF exists /\ "REPLACE" \notin options
       THEN [docs |-> dt, numDocuments |-> n, rc |-> REDISMODULE_ERR,
             msg |-> IF errs THEN "Document already exists" ELSE NULL,
             docFreed |-> FALSE]
       ELSE [docs |-> sub.docs, numDocuments |-> sub.numDocuments,
             rc |-> IF sub.hasErr THEN REDISMODULE_ERR ELSE REDISMODULE_OK,
             msg |-> IF sub.hasErr /\ errs THEN "indexing error" ELSE NULL,
             docFreed |-> TRUE]

IndexAddDocument_Body(t) ==
  /\ call[t].op = "IndexAddDocument"
  /\ LET d == call[t].args[1]
         e == IndexAddDocument_Effect(docs, numDocuments, d, call[t].args[2],
                                      call[t].args[3])
     IN /\ docs' = e.docs
        /\ numDocuments' = e.numDocuments
        /\ last' = [Returned("IndexAddDocument", e.rc) EXCEPT
                      !.key = d.docKey, !.msg = e.msg, !.docFreed = e.docFreed,
                      !.found = DocTable_GetIdR(docs, d.docKey)]
  /\ Release(t)
  /\ call' = [call EXCEPT ![t] = Idle]
  /\ UNCHANGED <<spLive, gc, fields, spFlags, iters>>

\* ------------------------------------------- Query Compilation Pipeline
\* The ways the stages of lines 360-376 can end.  QAST_Parse, QAST_Expand
\* and QAST_Iterate are outside the source under study: each either
\* succeeds or fails, and QAST_Iterate may also hand back an iterator with
\* the status set, which line 393 treats as a failure.
Outcomes == {"parse_fail", "expand_fail", "compile_fail", "compile_err", "ok"}

\* calloc(1, sizeof(*it)), line 358.
NewIter(t, qtype) == [NoIter EXCEPT !.state = "open", !.owner = t, !.qtype = qtype]

\* Lines 360-383: the iterator when control reaches the end label.  A
\* parse that fails leaves no tree behind; a caller's tree is adopted.
Stages(it, outcome) ==
  LET acquired == IF it.qtype = QUERY_INPUT_STRING /\ outcome = "parse_fail"
                    THEN it ELSE [it EXCEPT !.root = "tree"]
  IN IF outcome \in {"parse_fail", "expand_fail", "compile_fail"}
       THEN acquired
       ELSE [acquired EXCEPT !.internal = "live", !.scorer = TRUE]

\* QueryError_HasError(&status) at line 393.
HasError(outcome) == outcome \in {"parse_fail", "expand_fail", "compile_err"}

\* The end label freeing the caller's tree but keeping the pointer to it.
EndLabel_KeepRoot(it) ==
  IF it.qtype = QUERY_INPUT_NODE
    THEN [it EXCEPT !.treeFrees = IF it.root # NULL THEN @ + 1 ELSE @]
    ELSE it

\* The end label freeing the tree whatever the input was.
EndLabel_FreeAlways(it) ==
  [it EXCEPT !.treeFrees = IF it.root # NULL THEN @ + 1 ELSE @, !.root = NULL]

\* Lines 387-391: a caller-built tree is freed here, and forgotten.
EndLabel(it) ==
  IF it.qtype = QUERY_INPUT_NODE
    THEN [it EXCEPT !.treeFrees = IF it.root # NULL THEN @ + 1 ELSE @,
                    !.root = NULL]
    ELSE it

\* Lines 444-453 of RediSearch_ResultsIteratorFree: what is freed.
\* internalFrees counts calls of internal->Free; QAST_Destroy frees the
\* tree qast.root points to, if any.
FreeEffects(it) ==
  [treeFrees |-> IF it.root # NULL THEN it.treeFrees + 1 ELSE it.treeFrees,
   internalFrees |-> IF it.internal # NULL THEN 1 ELSE 0]

\* The slot calloc returns: the lowest one not in use.
FreeSlot == CHOOSE i \in Iters : iters[i].state = "none" /\
                                 \A j \in Iters : iters[j].state = "none" => i <= j

\* Number of compilations in flight, each about to allocate an RS_ApiIter.
Allocating == Cardinality({u \in Threads : call[u].op = "handleIterCommon"})

handleIterCommon_Acquire(t, qtype, error) ==
  /\ spLive
  /\ call[t] = Idle
  /\ \E i \in Iters : iters[i].state = "none"
  /\ Allocating + Cardinality({i \in Iters : iters[i].state # "none"}) < MaxIters
  /\ AcquireRead(t)
  /\ call' = [call EXCEPT ![t] = [op |-> "handleIterCommon",
                                  args |-> <<qtype, error>>]]
  /\ UNCHANGED <<spLive, gc, fields, spFlags, docs, numDocuments, iters, last>>

\* RediSearch_IterateQuery, lines 406-409.
IterateQuery_Acquire(t, error) == handleIterCommon_Acquire(t, QUERY_INPUT_STRING, error)

\* RediSearch_GetResultsIterator, lines 411-414.
GetResultsIterator_Acquire(t) == handleIterCommon_Acquire(t, QUERY_INPUT_NODE, FALSE)

\* handleIterCommon whose failure path frees the iterator object itself
\* and returns, without the release RediSearch_ResultsIteratorFree does.
handleIterCommon_Run_LeakLease(t, outcome) ==
  /\ call[t].op = "handleIterCommon"
  /\ call[t].args[1] = QUERY_INPUT_NODE => outcome # "parse_fail"
  /\ LET it == EndLabel(Stages(NewIter(t, call[t].args[1]), outcome))
         fr == FreeEffects(it)
     IN IF HasError(outcome) \/ it.internal = NULL
          THEN /\ iters' = iters
               /\ last' = [Returned("handleIterCommon", REDISMODULE_ERR) EXCEPT
                             !.found = call[t].args[1],
                             !.treeFrees = fr.treeFrees,
                             !.internalFrees = fr.internalFrees,
                             !.msg = IF call[t].args[2] THEN "query error" ELSE NULL]
          ELSE /\ iters' = [iters EXCEPT ![FreeSlot] = it]
               /\ last' = [Returned("handleIterCommon", REDISMODULE_OK) EXCEPT
                             !.found = call[t].args[1],
                             !.treeFrees = it.treeFrees]
  /\ call' = [call EXCEPT ![t] = Idle]
  /\ UNCHANGED <<rwWriter, rwReaders, spLive, gc, fields, spFlags, docs,
                 numDocuments>>

\* Lines 354-403, after the read hold is taken.
handleIterCommon_Run(t, outcome) ==
  /\ call[t].op = "handleIterCommon"
  /\ call[t].args[1] = QUERY_INPUT_NODE => outcome # "parse_fail"
  /\ LET it == EndLabel(Stages(NewIter(t, call[t].args[1]), outcome))
         fr == FreeEffects(it)
     IN IF HasError(outcome) \/ it.internal = NULL
          THEN \* RediSearch_ResultsIteratorFree(it); it = NULL;
               /\ iters' = iters
               /\ Release(t)
               /\ last' = [Returned("handleIterCommon", REDISMODULE_ERR) EXCEPT
                             !.found = call[t].args[1],
                             !.treeFrees = fr.treeFrees,
                             !.internalFrees = fr.internalFrees,
                             !.msg = IF call[t].args[2] THEN "query error" ELSE NULL]
          ELSE /\ iters' = [iters EXCEPT ![FreeSlot] = it]
               /\ UNCHANGED <<rwWriter, rwReaders>>
               /\ last' = [Returned("handleIterCommon", REDISMODULE_OK) EXCEPT
                             !.found = call[t].args[1],
                             !.treeFrees = it.treeFrees]
  /\ call' = [call EXCEPT ![t] = Idle]
  /\ UNCHANGED <<spLive, gc, fields, spFlags, docs, numDocuments>>

\* ------------------------------------------------------ Result Iterator
\* internal->Read: the next identifier of the posting list, 0 at EOF.  The
\* inverted index is outside the source under study; the posting list of
\* the query is every identifier the table has handed out, in order.
InternalRead(pos, dt) == IF pos < Len(dt) THEN pos + 1 ELSE 0

\* Line 427 without the Document_Deleted test.
Skipped_NullOnly(md) == ~md.present

\* Line 427: the match is skipped.
Skipped(md) == ~md.present \/ md.deleted

\* Lines 425-436: the loop of RediSearch_ResultsIteratorNext from cursor
\* pos: the cursor it stops at and the identifier returned (0: NULL).
RECURSIVE NextLoop(_, _)
NextLoop(pos, dt) ==
  LET id == InternalRead(pos, dt) IN
  IF id = 0 THEN [pos |-> pos, id |-> 0]
  ELSE IF Skipped(DocTable_Get(dt, id)) THEN NextLoop(id, dt)
  ELSE [pos |-> id, id |-> id]

OpenBy(t, i) == iters[i].state = "open" /\ iters[i].owner = t

ResultsIteratorNext(t, i) ==
  /\ spLive
  /\ call[t] = Idle
  /\ OpenBy(t, i)
  /\ LET r == NextLoop(iters[i].pos, docs) IN
       /\ iters' = [iters EXCEPT ![i].pos = r.pos,
                                 ![i].lastmd = IF r.id # 0 THEN r.id ELSE @,
                                 ![i].seen = IF r.id # 0
                                               THEN Append(@, docs[r.id].key) ELSE @]
       /\ last' = [Returned("ResultsIteratorNext", REDISMODULE_OK) EXCEPT
                     !.found = r.id,
                     !.key = IF r.id # 0 THEN docs[r.id].key ELSE NULL]
  /\ UNCHANGED <<rwWriter, rwReaders, spLive, gc, fields, spFlags, docs,
                 numDocuments, call>>

\* Lines 439-441.  Defined only after a successful Next.
ResultsIteratorGetScore(t, i) ==
  /\ spLive
  /\ call[t] = Idle
  /\ OpenBy(t, i)
  /\ iters[i].lastmd # 0
  /\ last' = [Returned("ResultsIteratorGetScore", REDISMODULE_OK) EXCEPT
                !.found = iters[i].lastmd]
  /\ UNCHANGED <<rwWriter, rwReaders, spLive, gc, fields, spFlags, docs,
                 numDocuments, iters, call>>

\* RediSearch_ResultsIteratorReset whose Rewind leaves the cursor where
\* it is.
ResultsIteratorReset_NoRewind(t, i) ==
  /\ spLive
  /\ call[t] = Idle
  /\ OpenBy(t, i)
  /\ iters' = [iters EXCEPT ![i].seen = <<>>]
  /\ last' = Returned("ResultsIteratorReset", REDISMODULE_OK)
  /\ UNCHANGED <<rwWriter, rwReaders, spLive, gc, fields, spFlags, docs,
                 numDocuments, call>>

\* Lines 458-460.
ResultsIteratorReset(t, i) ==
  /\ spLive
  /\ call[t] = Idle
  /\ OpenBy(t, i)
  /\ iters' = [iters EXCEPT ![i].pos = 0, ![i].seen = <<>>]
  /\ last' = Returned("ResultsIteratorReset", REDISMODULE_OK)
  /\ UNCHANGED <<rwWriter, rwReaders, spLive, gc, fields, spFlags, docs,
                 numDocuments, call>>

\* RediSearch_ResultsIteratorFree without its RWLOCK_RELEASE().
ResultsIteratorFree_NoRelease(t, i) ==
  /\ call[t] = Idle
  /\ OpenBy(t, i)
  /\ iters' = [iters EXCEPT ![i] = NoIter]
  /\ last' = [Returned("ResultsIteratorFree", REDISMODULE_OK) EXCEPT
                !.found = iters[i].qtype,
                !.treeFrees = FreeEffects(iters[i]).treeFrees,
                !.internalFrees = FreeEffects(iters[i]).internalFrees]
  /\ UNCHANGED <<rwWriter, rwReaders, spLive, gc, fields, spFlags, docs,
                 numDocuments, call>>

\* Lines 443-456.
ResultsIteratorFree(t, i) ==
  /\ call[t] = Idle
  /\ OpenBy(t, i)
  /\ iters' = [iters EXCEPT ![i] = NoIter]
  /\ Release(t)
  /\ last' = [Returned("ResultsIteratorFree", REDISMODULE_OK) EXCEPT
                !.found = iters[i].qtype,
                !.treeFrees = FreeEffects(iters[i]).treeFrees,
                !.internalFrees = FreeEffects(iters[i]).internalFrees]
  /\ UNCHANGED <<spLive, gc, fields, spFlags, docs, numDocuments, call>>

\* ------------------------------------------------------------ collector
\* The collector reclaims a tombstoned entry on its own schedule, without
\* taking the gate (its algorithm is outside the source under study).
GC_Reclaim(id) ==
  /\ spLive
  /\ gc = "ACTIVE"
  /\ id \in 1..Len(docs)
  /\ docs[id].present /\ docs[id].deleted
  /\ docs' = [docs EXCEPT ![id].present = FALSE]
  /\ UNCHANGED <<rwWriter, rwReaders, spLive, gc, fields, spFlags, numDocuments,
                 iters, call, last>>

\* One cycle of the collector, by the contract the GC Handoff Protocol
\* gives it (fork_gc.c is outside the source under study): it never takes
\* the gate; it reads the state flag, stops for good when the flag says
\* the index is gone, and otherwise goes on to work on the index.
Collector_Check ==
  /\ gc # "NONE"
  /\ call[Collector] = Idle
  /\ call' = [call EXCEPT ![Collector] =
                IF gc = "FREED" THEN [op |-> "terminated", args |-> <<>>]
                                ELSE [op |-> "cycle", args |-> <<>>]]
  /\ UNCHANGED <<rwWriter, rwReaders, spLive, gc, fields, spFlags, docs,
                 numDocuments, iters, last>>

\* The work of the cycle: the collector dereferences the index and
\* reclaims the tombstoned entries.  On an index that has been released
\* this is a use of freed memory, after which nothing is known.
Collector_Touch ==
  /\ call[Collector] = [op |-> "cycle", args |-> <<>>]
  /\ IF spLive
       THEN /\ docs' = [i \in 1..Len(docs) |->
                          IF docs[i].deleted THEN [docs[i] EXCEPT !.present = FALSE]
                                             ELSE docs[i]]
            /\ call' = [call EXCEPT ![Collector] = Idle]
       ELSE /\ docs' = docs
            /\ call' = [call EXCEPT ![Collector] =
                          [op |-> "use_after_free", args |-> <<>>]]
  /\ UNCHANGED <<rwWriter, rwReaders, spLive, gc, fields, spFlags, numDocuments,
                 iters, last>>

\* ------------------------------------------- mutation calls that wait
\* The first statement of every mutation entry point is
\* RWLOCK_ACQUIRE_WRITE() (lines 63, 79, 152, 207).  Mutation_Call puts
\* thread t at that statement of the entry point op with the arguments
\* args, where it waits; Mutation_Enter is the gate letting it in, after
\* which the body of the entry point runs.  (The X_Acquire actions above
\* are the two steps taken at once.)
Mutation_Call(t, op, args) ==
  /\ spLive
  /\ call[t] = Idle
  /\ call' = [call EXCEPT ![t] = [op |-> "RWLOCK_ACQUIRE_WRITE",
                                  args |-> <<op, args>>]]
  /\ UNCHANGED <<rwWriter, rwReaders, spLive, gc, fields, spFlags, docs,
                 numDocuments, iters, last>>

\* A gate that lets a writer in while read holds are outstanding.
Mutation_Enter_PastReaders(t) ==
  /\ call[t].op = "RWLOCK_ACQUIRE_WRITE"
  /\ rwWriter = NoThread
  /\ rwWriter' = t
  /\ call' = [call EXCEPT ![t] = [op |-> call[t].args[1], args |-> call[t].args[2]]]
  /\ UNCHANGED <<rwReaders, spLive, gc, fields, spFlags, docs, numDocuments,
                 iters, last>>

Mutation_Enter(t) ==
  /\ call[t].op = "RWLOCK_ACQUIRE_WRITE"
  /\ AcquireWrite(t)
  /\ call' = [call EXCEPT ![t] = [op |-> call[t].args[1], args |-> call[t].args[2]]]
  /\ UNCHANGED <<spLive, gc, fields, spFlags, docs, numDocuments, iters, last>>

\* ----------------------------------------------------------------- Next
\* Steps of a call that has taken the gate, and calls on an open iterator.
Progress ==
  \/ \E t \in Threads : DropIndex_MarkGC(t)
  \/ \E t \in Threads : DropIndex_Free(t)
  \/ \E t \in Threads : CreateField_Body(t)
  \/ \E t \in Threads : DeleteDocument_Body(t)
  \/ \E t \in Threads : IndexAddDocument_Body(t)
  \/ \E t \in Threads, o \in Outcomes : handleIterCommon_Run(t, o)
  \/ \E t \in Threads, i \in Iters : ResultsIteratorNext(t, i)
  \/ \E t \in Threads, i \in Iters : ResultsIteratorGetScore(t, i)
  \/ \E t \in Threads, i \in Iters : ResultsIteratorReset(t, i)
  \/ \E t \in Threads, i \in Iters : ResultsIteratorFree(t, i)

\* Spec: every thread may call every entry point, in every interleaving.
\* The inputs are kept to one document key, indexable documents and fields
\* without options; SpecDocs covers the document inputs.
Next ==
  \/ \E t \in Threads : DropIndex_Acquire(t)
  \/ \E t \in Threads, n \in FieldNames, ty \in TypeInputs, o \in {{}} :
        CreateField_Acquire(t, n, ty, o)
  \/ \E t \in Threads : DeleteDocument_Acquire(t, "doc1")
  \/ \E t \in Threads, o \in {{}, {"REPLACE"}} :
        /\ Len(docs) = 0 \/ DocTable_GetIdR(docs, "doc1") # 0
        /\ IndexAddDocument_Acquire(t, [docKey |-> "doc1", indexable |-> TRUE], o, TRUE)
  \/ \E t \in Threads : IterateQuery_Acquire(t, TRUE)
  \/ \E t \in Threads : GetResultsIterator_Acquire(t)
  \/ Progress

\* The index of Spec is created with a collector (the default policy).
InitGate == Init /\ gc = "ACTIVE"

Spec == InitGate /\ [][Next]_vars

\* SpecDocs: every document input and the collector's reclamation, with
\* thread t1 the only one that compiles queries.
NextDocs ==
  \/ \E t \in Threads, k \in Keys : DeleteDocument_Acquire(t, k)
  \/ \E t \in Threads, d \in Documents, o \in {{}, {"REPLACE"}}, e \in BOOLEAN :
        IndexAddDocument_Acquire(t, d, o, e)
  \/ /\ \A i \in Iters : iters[i].state = "none"
     /\ IterateQuery_Acquire("t1", TRUE)
  \/ \E t \in Threads : DeleteDocument_Body(t)
  \/ \E t \in Threads : IndexAddDocument_Body(t)
  \/ handleIterCommon_Run("t1", "ok")
  \/ \E i \in Iters : ResultsIteratorNext("t1", i)
  \/ \E i \in Iters : ResultsIteratorReset("t1", i)
  \/ \E i \in Iters : ResultsIteratorFree("t1", i)
  \/ \E id \in 1..MaxDocId : GC_Reclaim(id)

\* The index of SpecDocs is created with a collector (the default policy).
InitDocs == Init /\ gc = "ACTIVE"

SpecDocs == InitDocs /\ [][NextDocs]_vars

\* SpecFields: the Field Registry.  Two names compete for the one
\* full-text id, every type set (the empty one included) and option set is
\* handed in, thread t1 opens and releases iterators meanwhile, and the
\* other mutation entry points are called on one document key.
FieldNameInputs == {"title", "body"}

NextFields ==
  \/ \E t \in Threads, n \in FieldNameInputs, ty \in TypeInputs \cup {{}},
          o \in OptionInputs : CreateField_Acquire(t, n, ty, o)
  \/ \E t \in Threads, n \in FieldNameInputs, o \in OptionInputs :
        CreateField_AssertFails(t, n, o)
  \/ \E t \in Threads : CreateField_Body(t)
  \/ \E t \in Threads, f \in 1..Cardinality(FieldNameInputs) :
        TextFieldSetWeight(t, f, 2)
  \/ \E t \in Threads, f \in 1..Cardinality(FieldNameInputs) :
        TagSetSeparator(t, f, ";")
  \/ IterateQuery_Acquire("t1", TRUE)
  \/ handleIterCommon_Run("t1", "ok")
  \/ \E i \in Iters : ResultsIteratorFree("t1", i)
  \/ \E t \in Threads :
        /\ Len(docs) = 0 \/ DocTable_GetIdR(docs, "doc1") # 0
        /\ IndexAddDocument_Acquire(t, [docKey |-> "doc1", indexable |-> TRUE],
                                    {}, TRUE)
  \/ \E t \in Threads : IndexAddDocument_Body(t)
  \/ \E t \in Threads : DeleteDocument_Acquire(t, "doc1")
  \/ \E t \in Threads : DeleteDocument_Body(t)
  \/ \E t \in Threads : DropIndex_Acquire(t)
  \/ \E t \in Threads : DropIndex_MarkGC(t)
  \/ \E t \in Threads : DropIndex_Free(t)

\* The index of SpecFields is created with a collector (the default policy).
InitFields == Init /\ gc = "ACTIVE"

SpecFields == InitFields /\ [][NextFields]_vars

\* SpecDrop: the GC Handoff Protocol.  The index is created with or
\* without a collector, documents are added and deleted, and DropIndex
\* runs against the collector's cycle in every interleaving.
NextDrop ==
  \/ \E t \in Threads : DropIndex_Acquire(t)
  \/ \E t \in Threads : DropIndex_MarkGC(t)
  \/ \E t \in Threads : DropIndex_Free(t)
  \/ \E t \in Threads, d \in Documents :
        IndexAddDocument_Acquire(t, d, {}, TRUE)
  \/ \E t \in Threads : IndexAddDocument_Body(t)
  \/ \E t \in Threads, k \in Keys : DeleteDocument_Acquire(t, k)
  \/ \E t \in Threads : DeleteDocument_Body(t)
  \/ Collector_Check
  \/ Collector_Touch

SpecDrop == Init /\ [][NextDrop]_vars

\* SpecTwo: two indices in one process.  Documents are added to and
\* deleted from the first, iterators are opened on the first, and
\* DeleteDocument is called on the second.
NextTwo ==
  \/ \E t \in Threads, d \in Documents :
        IndexAddDocument_Acquire(t, d, {}, TRUE)
  \/ \E t \in Threads : IndexAddDocument_Body(t)
  \/ \E t \in Threads : DeleteDocument_Acquire(t, "doc1")
  \/ \E t \in Threads : DeleteDocument_Body(t)
  \/ \E t \in Threads : IterateQuery_Acquire(t, TRUE)
  \/ \E t \in Threads, o \in Outcomes : handleIterCommon_Run(t, o)
  \/ \E t \in Threads, i \in Iters : ResultsIteratorFree(t, i)
  \/ \E t \in Threads, k \in Keys : DeleteDocument_Acquire_OtherIndex(t, k)
  \/ \E t \in Threads : DeleteDocument_Body_OtherIndex(t)

\* Both indices of SpecTwo are created with a collector.
InitTwo == Init /\ gc = "ACTIVE"

SpecTwo == InitTwo /\ [][NextTwo]_vars

\* SpecLive: mutation calls wait at the gate, and the scheduler and the
\* gate are fair.  Every thread opens and releases iterators and
\* calls each of the four mutation entry points.
MutationInputs ==
  { <<"CreateField", <<"title", {"NUMERIC", "TAG"}, {}>> >>,
    <<"IndexAddDocument", <<[docKey |-> "doc1", indexable |-> TRUE], {"REPLACE"}, TRUE>> >>,
    <<"DeleteDocument", <<"doc1">> >>,
    <<"DropIndex", <<"locked">> >> }

\* The mutation entry point thread t is waiting for or inside of, if any.
MutationOf(t) ==
  IF call[t].op = "RWLOCK_ACQUIRE_WRITE" THEN call[t].args[1] ELSE call[t].op

\* The calls a correct caller makes: a name is registered once, the
\* document table is not overrun, and the index is not used once
\* DropIndex has been called on it.
Callable(op, args) ==
  /\ \A u \in Threads : MutationOf(u) # "DropIndex"
  /\ op = "CreateField" =>
        /\ \A i \in 1..Len(fields) : fields[i].name # args[1]
        /\ \A u \in Threads : MutationOf(u) # "CreateField"
  /\ op = "IndexAddDocument" =>
        Len(docs) + Cardinality({u \in Threads : MutationOf(u) = "IndexAddDocument"})
           < MaxDocId

NextLive ==
  \/ \E t \in Threads, m \in MutationInputs :
        Callable(m[1], m[2]) /\ Mutation_Call(t, m[1], m[2])
  \/ \E t \in Threads : Mutation_Enter(t)
  \/ \E t \in Threads : CreateField_Body(t)
  \/ \E t \in Threads : IndexAddDocument_Body(t)
  \/ \E t \in Threads : DeleteDocument_Body(t)
  \/ \E t \in Threads : DropIndex_MarkGC(t)
  \/ \E t \in Threads : DropIndex_Free(t)
  \/ \E t \in Threads : IterateQuery_Acquire(t, TRUE)
  \/ \E t \in Threads, o \in {"ok", "parse_fail"} : handleIterCommon_Run(t, o)
  \/ \E t \in Threads, i \in Iters : ResultsIteratorFree(t, i)

\* The index of SpecLive is created with a collector (the default policy).
InitLive == Init /\ gc = "ACTIVE"

\* A call that can run does run (the bodies and the compilation take no
\* lock and do not wait), and the gate is fair to a waiting writer: one
\* that could be let in again and again is let in.  Opening and releasing
\* iterators is the callers' choice and is under no fairness.
FairLive ==
  \A t \in Threads :
     /\ SF_vars(Mutation_Enter(t))
     /\ WF_vars(CreateField_Body(t))
     /\ WF_vars(IndexAddDocument_Body(t))
     /\ WF_vars(DeleteDocument_Body(t))
     /\ WF_vars(DropIndex_MarkGC(t))
     /\ WF_vars(DropIndex_Free(t))
     /\ WF_vars(\E o \in {"ok", "parse_fail"} : handleIterCommon_Run(t, o))

SpecLive == InitLive /\ [][NextLive]_vars /\ FairLive

\* ================================================================ claims
InWriteCS(t) == call[t].op \in {"DropIndex", "CreateField", "DeleteDocument",
                                "IndexAddDocument"}

Compiling(t) == call[t].op = "handleIterCommon"

OpenIters == {i \in Iters : iters[i].state = "open"}

OpenOf(t) == {i \in Iters : OpenBy(t, i)}

\* C1: no mutation call is inside its critical section while another
\* mutation call is inside its own, or while a Result Iterator is open or
\* being compiled; and whenever no mutation is inside its critical section
\* a read acquire does not block, however many iterators are open.
C1_MutualExclusion ==
  /\ \A t \in Threads : InWriteCS(t) =>
        /\ \A u \in Threads \ {t} : ~InWriteCS(u) /\ ~Compiling(u)
        /\ OpenIters = {}
  /\ (\A t \in Threads : ~InWriteCS(t)) => CanAcquireRead

\* Two iterators are open at once, on an index a mutation has written to.
C1_Witness == Cardinality(OpenIters) >= 2 /\ numDocuments = 1

\* C2: each open iterator (and each compilation in flight) accounts for
\* exactly one read hold of its thread, from the return of the compiling
\* call to ResultsIteratorFree, which gives back exactly that one hold;
\* Next, GetScore and Reset leave the gate as it is.
C2_LeasePerIterator ==
  /\ [](\A t \in Threads :
          rwReaders[t] = Cardinality(OpenOf(t)) + (IF Compiling(t) THEN 1 ELSE 0))
  /\ [][\A t \in Threads, i \in Iters :
          /\ ResultsIteratorFree(t, i) =>
               rwReaders'[t] = rwReaders[t] - 1 /\ rwWriter' = rwWriter
          /\ (\/ ResultsIteratorNext(t, i)
              \/ ResultsIteratorGetScore(t, i)
              \/ ResultsIteratorReset(t, i)) =>
               UNCHANGED <<rwWriter, rwReaders>>]_vars

\* An iterator has just been released while another one stays open.
C2_Witness == last.op = "ResultsIteratorFree" /\ OpenIters # {}

\* Whether the compilation that ends with outcome o had a tree to free.
HadTree(qtype, o) == qtype = QUERY_INPUT_NODE \/ o # "parse_fail"

\* C3: a compilation that fails at any stage returns no iterator, gives
\* back the read hold it took exactly once, frees the tree and the partial
\* executable iterator exactly once each, and leaves the caller with no
\* hold beyond those of the iterators it has open.
C3_FailureUnwinds ==
  [][\A t \in Threads, o \in Outcomes :
       (handleIterCommon_Run(t, o) /\ o # "ok") =>
          /\ last'.rc = REDISMODULE_ERR
          /\ iters' = iters
          /\ rwReaders'[t] = rwReaders[t] - 1
          /\ rwReaders'[t] = Cardinality(OpenOf(t))
          /\ rwWriter' = rwWriter
          /\ last'.treeFrees = (IF HadTree(call[t].args[1], o) THEN 1 ELSE 0)
          /\ last'.internalFrees = (IF o = "compile_err" THEN 1 ELSE 0)]_vars

\* A compilation has just failed after a tree existed, while an iterator
\* of an earlier compilation is still open.
C3_Witness ==
  /\ last.op = "handleIterCommon" /\ last.rc = REDISMODULE_ERR
  /\ last.treeFrees = 1
  /\ OpenIters # {}

\* C4: a caller-built tree handed to GetResultsIterator is freed exactly
\* once over compile and ResultsIteratorFree: once when the compilation
\* fails, once by the time an iterator is returned, and still once after
\* that iterator is released.
C4_TreeFreedOnce ==
  /\ \A i \in OpenIters : iters[i].qtype = QUERY_INPUT_NODE => iters[i].treeFrees = 1
  /\ (last.op \in {"handleIterCommon", "ResultsIteratorFree"}
        /\ last.found = QUERY_INPUT_NODE) => last.treeFrees = 1

\* An iterator compiled from a caller-built tree has just been released.
C4_Witness == last.op = "ResultsIteratorFree" /\ last.found = QUERY_INPUT_NODE

\* C5 as stated: every open iterator, from a string or from a caller's
\* tree, still has the tree it was compiled from allocated, and only
\* ResultsIteratorFree frees it.
C5_TreeOwnedUntilFree ==
  /\ \A i \in OpenIters : iters[i].root # NULL /\ iters[i].treeFrees = 0
  /\ last.op = "ResultsIteratorFree" => last.treeFrees = 1

\* C5 amended: an iterator compiled from a string keeps its tree allocated
\* while it is open and ResultsIteratorFree frees it, once; the tree of an
\* iterator compiled from a caller's tree was freed by the compiling call,
\* the open iterator holds no pointer to it, and ResultsIteratorFree does
\* not free it again.
C5_Amended ==
  /\ \A i \in OpenIters :
        IF iters[i].qtype = QUERY_INPUT_STRING
          THEN iters[i].root # NULL /\ iters[i].treeFrees = 0
          ELSE iters[i].root = NULL /\ iters[i].treeFrees = 1
  /\ last.op = "ResultsIteratorFree" => last.treeFrees = 1

\* Next has just returned on an open iterator compiled from a string, and
\* an iterator compiled from a caller's tree is open too.
C5_Witness ==
  /\ last.op = "ResultsIteratorNext"
  /\ \E i, j \in OpenIters : /\ iters[i].qtype = QUERY_INPUT_STRING
                             /\ iters[i].pos > 0
                             /\ iters[j].qtype = QUERY_INPUT_NODE

\* Entry id of table dt is present and not tombstoned.
LiveEntry(dt, id) == id \in 1..Len(dt) /\ dt[id].present /\ ~dt[id].deleted

\* Key k has been deleted: it has a tombstoned entry and no live one.
Deleted(dt, k) ==
  /\ DocTable_GetIdR(dt, k) = 0
  /\ \E i \in 1..Len(dt) : dt[i].key = k /\ dt[i].deleted

\* C6: DeleteDocument returns REDISMODULE_OK when the key is present,
\* tombstoning its entry and decrementing the live count by exactly one,
\* and returns REDISMODULE_ERR when the key is absent, changing nothing.
C6_DeleteStatus ==
  [][\A t \in Threads :
       DeleteDocument_Body(t) =>
          LET id == DocTable_GetIdR(docs, call[t].args[1]) IN
          IF id # 0
            THEN /\ last'.rc = REDISMODULE_OK
                 /\ docs' = [docs EXCEPT ![id].deleted = TRUE]
                 /\ numDocuments' = numDocuments - 1
            ELSE /\ last'.rc = REDISMODULE_ERR
                 /\ UNCHANGED <<docs, numDocuments>>]_vars

\* C7: submitting an existing key without the replace option returns the
\* error status, with the message "Document already exists" when a message
\* slot is supplied, releases the write gate, and leaves the document
\* table and the live count as they were.
C7_ConflictRejected ==
  [][\A t \in Threads :
       (/\ IndexAddDocument_Body(t)
        /\ DocTable_GetIdR(docs, call[t].args[1].docKey) # 0
        /\ "REPLACE" \notin call[t].args[2]) =>
          /\ last'.rc = REDISMODULE_ERR
          /\ last'.msg = (IF call[t].args[3] THEN "Document already exists" ELSE NULL)
          /\ rwWriter = t /\ rwWriter' = NoThread /\ rwReaders' = rwReaders
          /\ UNCHANGED <<docs, numDocuments>>]_vars

\* A conflict has just been reported with its message, on a table that
\* still holds the live entry.
C7_Witness ==
  /\ last.op = "IndexAddDocument" /\ last.rc = REDISMODULE_ERR
  /\ last.msg = "Document already exists"
  /\ DocTable_GetIdR(docs, last.key) # 0
  /\ rwWriter = NoThread

\* The live count is the number of keys present and not tombstoned.
CountIsLiveKeys == numDocuments = Cardinality(LiveKeys(docs))

\* C8 as stated: submitting an existing key with the replace option
\* succeeds and leaves the live count as it was; and the live count always
\* equals the number of keys present and not tombstoned.
C8_ReplaceSucceeds ==
  /\ []CountIsLiveKeys
  /\ [][\A t \in Threads :
          (/\ IndexAddDocument_Body(t)
           /\ DocTable_GetIdR(docs, call[t].args[1].docKey) # 0
           /\ "REPLACE" \in call[t].args[2]) =>
             /\ last'.rc = REDISMODULE_OK
             /\ numDocuments' = numDocuments]_vars

\* C8 amended: the replace succeeds unless the indexer reports an error
\* for the document, which is returned as the error status; either way the
\* live count is as it was; and the live count always equals the number of
\* keys present and not tombstoned.
C8_Amended ==
  /\ []CountIsLiveKeys
  /\ [][\A t \in Threads :
          (/\ IndexAddDocument_Body(t)
           /\ DocTable_GetIdR(docs, call[t].args[1].docKey) # 0
           /\ "REPLACE" \in call[t].args[2]) =>
             /\ last'.rc = (IF call[t].args[1].indexable
                              THEN REDISMODULE_OK ELSE REDISMODULE_ERR)
             /\ numDocuments' = numDocuments]_vars

\* A replace has just succeeded while both keys are live.
C8_Witness ==
  /\ last.op = "IndexAddDocument" /\ last.rc = REDISMODULE_OK
  /\ last.found # 0
  /\ numDocuments = 2

\* What C9 says of delete: deleting a present key makes its lookup yield
\* 0, and deleting a deleted key is a not-found error that changes neither
\* the table nor the count.
C9_DeleteSteps ==
  \A t \in Threads :
     DeleteDocument_Body(t) =>
        LET k == call[t].args[1] IN
        /\ DocTable_GetIdR(docs, k) # 0 => DocTable_GetIdR(docs', k) = 0
        /\ Deleted(docs, k) =>
             /\ last'.rc = REDISMODULE_ERR
             /\ UNCHANGED <<docs, numDocuments>>

\* Submitting document d adds a fresh live entry for its key.
FreshInsertion(d) ==
  /\ docs' = Append(docs, [key |-> d.docKey, deleted |-> FALSE, present |-> TRUE])
  /\ numDocuments' = numDocuments + 1

\* C9 as stated: after add and delete the key's lookup yields 0, a second
\* delete is a not-found error that leaves the count alone, and submitting
\* the key again without the replace option is a fresh insertion that
\* succeeds.
C9_DeleteThenReadd ==
  [][/\ C9_DeleteSteps
     /\ \A t \in Threads :
          (/\ IndexAddDocument_Body(t)
           /\ Deleted(docs, call[t].args[1].docKey)
           /\ "REPLACE" \notin call[t].args[2]) =>
             /\ last'.rc = REDISMODULE_OK
             /\ FreshInsertion(call[t].args[1])]_vars

\* C9 amended: as C9, except that the later submission is never rejected
\* as a conflict: it is a fresh insertion that succeeds when the indexer
\* accepts the document, and the indexer's error, with the table and the
\* count unchanged, when it does not.
C9_Amended ==
  [][/\ C9_DeleteSteps
     /\ \A t \in Threads :
          (/\ IndexAddDocument_Body(t)
           /\ Deleted(docs, call[t].args[1].docKey)
           /\ "REPLACE" \notin call[t].args[2]) =>
             /\ last'.msg # "Document already exists"
             /\ IF call[t].args[1].indexable
                  THEN /\ last'.rc = REDISMODULE_OK
                       /\ FreshInsertion(call[t].args[1])
                  ELSE /\ last'.rc = REDISMODULE_ERR
                       /\ UNCHANGED <<docs, numDocuments>>]_vars

\* A key that was added and deleted has just been added again: its
\* tombstone sits below its new live entry.
C9_Witness ==
  /\ last.op = "IndexAddDocument" /\ last.rc = REDISMODULE_OK /\ last.found = 0
  /\ \E i \in 1..Len(docs) :
        /\ docs[i].key = last.key /\ docs[i].deleted
        /\ i < DocTable_GetIdR(docs, last.key)

\* C10: Next returns the key of the first entry after the cursor that is
\* present and not tombstoned, skipping every other match, or
\* end-of-sequence when there is none; and the document an open iterator
\* last returned is still live, whatever the other threads call.
C10_NextSkipsDeleted ==
  /\ [](\A i \in OpenIters :
          iters[i].lastmd # 0 => LiveEntry(docs, iters[i].lastmd))
  /\ [][\A t \in Threads, i \in Iters :
          ResultsIteratorNext(t, i) =>
             LET p == iters[i].pos
                 id == last'.found
             IN IF last'.key # NULL
                  THEN /\ id > p
                       /\ LiveEntry(docs, id)
                       /\ docs[id].key = last'.key
                       /\ \A j \in (p + 1)..(id - 1) : ~LiveEntry(docs, j)
                       /\ iters'[i].pos = id /\ iters'[i].lastmd = id
                  ELSE \A j \in (p + 1)..Len(docs) : ~LiveEntry(docs, j)]_vars

\* Next has just returned a live key after skipping a tombstoned entry and
\* a reclaimed one.
C10_Witness ==
  /\ last.op = "ResultsIteratorNext" /\ last.key # NULL
  /\ \E i \in OpenIters : iters[i].pos = last.found
  /\ \E j \in 1..(last.found - 1) : docs[j].present /\ docs[j].deleted
  /\ \E j \in 1..(last.found - 1) : ~docs[j].present

\* C11: CreateField called with an empty type set, whatever the name and
\* the options, returns an error outcome, registers no field and leaves
\* the index and the gate as they were.
C11_EmptyTypesRejected ==
  [][\A t \in Threads :
       (\/ \E n \in FieldNameInputs, o \in OptionInputs :
              CreateField_AssertFails(t, n, o)
        \/ CreateField_Body(t) /\ call[t].args[2] = {}) =>
          /\ last'.op = "CreateField" /\ last'.rc = REDISMODULE_ERR
          /\ rwReaders' = rwReaders /\ rwWriter' = NoThread
          /\ UNCHANGED <<fields, spFlags, docs, numDocuments, spLive, gc>>]_vars

\* C12: DropIndex on an index whose collector is Active writes the
\* collector's state flag (ForkGCCtxType_FREED, the state the protocol
\* calls Doomed) while nothing of the index has been released yet; the
\* release comes after that write, and both happen while the caller holds
\* the write gate.
C12_DoomedBeforeRelease ==
  /\ [](~spLive => gc \in {"NONE", "FREED"})
  /\ [][\A t \in Threads :
          /\ DropIndex_MarkGC(t) =>
               /\ gc = "ACTIVE" => gc' = "FREED"
               /\ rwWriter = t /\ rwWriter' = t
               /\ spLive /\ UNCHANGED <<spLive, fields, spFlags, docs, numDocuments>>
          /\ DropIndex_Free(t) =>
               /\ gc # "ACTIVE"
               /\ rwWriter = t
               /\ spLive /\ ~spLive']_vars
  /\ [][spLive' # spLive => rwWriter \in Threads]_vars

\* DropIndex has written the flag of an Active collector and is about to
\* release an index that holds a document.
C12_Witness ==
  /\ \E t \in Threads : call[t] = [op |-> "DropIndex", args |-> <<"marked">>]
  /\ gc = "FREED"
  /\ spLive /\ numDocuments > 0

\* C13: however DropIndex interleaves with the collector's cycle, the
\* step of the collector that works on the index never happens once
\* DropIndex has released the index, also when the collector read the flag
\* before DropIndex wrote it.
C13_NoUseAfterRelease == [][Collector_Touch => spLive]_vars

\* C14: the gate is per index: whatever is open or in progress on one
\* index (a Result Iterator holding its read lease, a mutation inside its
\* critical section), a mutation call on another index, on which nothing
\* is in progress, does not block.
C14_GatePerIndex ==
  \A t \in Threads :
     (/\ call[t] = Idle
      /\ \A u \in Threads : call[u].op # "DeleteDocument_OtherIndex") =>
        ENABLED DeleteDocument_Acquire_OtherIndex(t, "doc1")

\* The body of a mutation call by thread t.
MutationBody(t) ==
  \/ CreateField_Body(t)
  \/ IndexAddDocument_Body(t)
  \/ DeleteDocument_Body(t)

\* C15: a mutation call that returns an error leaves the index as it was
\* before the call; in particular a CreateField that fails for want of a
\* full-text id leaves the Field Registry as it was, with no field of the
\* requested name in it.
C15_ErrorLeavesState ==
  [][\A t \in Threads :
       (MutationBody(t) /\ last'.rc = REDISMODULE_ERR) =>
          /\ UNCHANGED <<fields, spFlags, docs, numDocuments>>
          /\ call[t].op = "CreateField" =>
                \A i \in 1..Len(fields') : fields'[i].name # call[t].args[1]]_vars

\* Thread t is inside a mutation call and waiting for the write gate.
Blocked(t) == call[t].op = "RWLOCK_ACQUIRE_WRITE"

\* No read lease is wanted: no iterator is open and none is being compiled.
NoLease == OpenIters = {} /\ \A t \in Threads : ~Compiling(t)

\* What C16 says of an iterator that stays open: while any iterator is
\* open or being compiled no waiting mutation call is let in, and a thread
\* that waits in a mutation call while holding an open iterator waits
\* forever, its iterator never released.
C16_BlockedWhileOpen ==
  [][\A t \in Threads :
       /\ Mutation_Enter(t) => NoLease
       /\ (Blocked(t) /\ OpenOf(t) # {}) =>
             /\ call'[t] = call[t]
             /\ \A i \in OpenOf(t) : iters'[i] = iters[i]]_vars

\* C16 as stated: under fair scheduling, if every iterator that is opened
\* is released at some later time, every waiting mutation call is let in
\* and returns; and an iterator that stays open blocks every mutation
\* call, its holder's included, forever.
C16_WritersProgress ==
  /\ (\A i \in Iters : []<>(iters[i].state # "open"))
        => \A t \in Threads : Blocked(t) ~> (call[t] = Idle)
  /\ C16_BlockedWhileOpen

\* C16 amended: under fair scheduling, if again and again there is a
\* moment at which no iterator is open or being compiled, every waiting
\* mutation call is let in and returns; and an iterator that stays open
\* blocks every mutation call, its holder's included, forever.
C16_Amended ==
  /\ ([]<>NoLease) => \A t \in Threads : Blocked(t) ~> (call[t] = Idle)
  /\ C16_BlockedWhileOpen

\* Every thread waits in a mutation call while an iterator is open, one of
\* them the thread that holds the iterator.
C16_Witness ==
  /\ \A t \in Threads : Blocked(t)
  /\ \E t \in Threads : OpenOf(t) # {}

\* C17: IndexAddDocument frees the Document handle it is given in every
\* outcome: insertion, replace, indexing error, and conflict on an
\* existing key without the replace option.
C17_DocumentConsumed ==
  [][\A t \in Threads : IndexAddDocument_Body(t) => last'.docFreed]_vars

\* The keys of the entries of table dt that are present and not
\* tombstoned, in identifier order: what an iterator returns from its
\* start.
LiveSeq(dt) ==
  LET live == SelectSeq(dt, LAMBDA e : e.present /\ ~e.deleted)
  IN [j \in 1..Len(live) |-> live[j].key]

IsPrefix(a, b) == Len(a) <= Len(b) /\ \A j \in 1..Len(a) : a[j] = b[j]

\* C18: Reset rewinds the iterator to its start without recompiling it and
\* without touching the gate or the index; whatever was read before, the
\* keys Next returns after a Reset are, one by one, the keys the iterator
\* returns from its start, a sequence that does not change while the
\* iterator is open.
C18_ResetReplays ==
  /\ [](\A i \in OpenIters : IsPrefix(iters[i].seen, LiveSeq(docs)))
  /\ [][\A t \in Threads, i \in Iters :
          /\ ResultsIteratorReset(t, i) =>
               /\ iters'[i] = [iters[i] EXCEPT !.pos = 0, !.seen = <<>>]
               /\ UNCHANGED <<rwWriter, rwReaders, docs, numDocuments>>
          /\ ResultsIteratorNext(t, i) =>
               LET n == Len(iters[i].seen) IN
               last'.key = (IF n < Len(LiveSeq(docs))
                              THEN LiveSeq(docs)[n + 1] ELSE NULL)
          /\ (iters[i].state = "open" /\ iters'[i].state = "open") =>
               LiveSeq(docs') = LiveSeq(docs)]_vars

\* An iterator that had returned the second of two live keys has just
\* been rewound, on a table that also holds a reclaimed entry.
C18_Witness ==
  /\ last.op = "ResultsIteratorReset"
  /\ \E i \in OpenIters :
        /\ iters[i].pos = 0
        /\ iters[i].lastmd # 0
        /\ Len(LiveSeq(docs)) = 2
        /\ LiveSeq(docs)[2] = docs[iters[i].lastmd].key
  /\ \E j \in 1..Len(docs) : ~docs[j].present

MutationOps == {"DropIndex", "CreateField", "DeleteDocument", "IndexAddDocument"}

\* C19: every mutation entry point takes the write gate once when it
\* starts and gives it back once when it returns, on every return path
\* (the early failure of CreateField and the conflict of IndexAddDocument
\* included) and touches the gate at no other time; so a thread that is
\* outside every call owns exactly one gate hold for each iterator it has
\* open and no other.
C19_GateBalanced ==
  /\ [](\A t \in Threads :
          /\ call[t] = Idle =>
                rwWriter # t /\ rwReaders[t] = Cardinality(OpenOf(t))
          /\ InWriteCS(t) => rwWriter = t /\ rwReaders[t] = 0)
  /\ [][\A t \in Threads :
          /\ (call[t] = Idle /\ call'[t].op \in MutationOps) =>
                rwWriter = NoThread /\ rwWriter' = t /\ rwReaders' = rwReaders
          /\ (InWriteCS(t) /\ call'[t].op \in MutationOps) =>
                UNCHANGED <<rwWriter, rwReaders>>
          /\ (InWriteCS(t) /\ call'[t] = Idle) =>
                rwWriter = t /\ rwWriter' = NoThread /\ rwReaders' = rwReaders]_vars

\* CreateField has just returned its early failure on an index that holds
\* a document; the gate was given back, and a compilation has taken it for
\* reading since.
C19_Witness ==
  /\ last.op = "CreateField" /\ last.rc = REDISMODULE_ERR
  /\ numDocuments = 1
  /\ rwWriter = NoThread /\ TotalReaders = 1

\* C20: every step of an API call that writes index-owned state (the
\* field definitions with their text weight and tag separator, the
\* document table, the document count, the index flags) is taken while the
\* caller holds the write gate, hence while no Result Iterator is open;
\* TextFieldSetWeight and TagSetSeparator included.
C20_WritesUnderGate ==
  [][(\/ fields' # fields
      \/ spFlags' # spFlags
      \/ docs' # docs
      \/ numDocuments' # numDocuments) =>
        /\ rwWriter \in Threads
        /\ OpenIters = {}]_vars

====
